---- MODULE Spec2Model ----
(***************************************************************************)
(* doc-orchestrator: the rasterize stage (src/src/stages/rasterize.js) and *)
(* the classify stage (src/classifier.js) as one state machine over the    *)
(* staging directory.  A behaviour is a sequence of stage runs (separate   *)
(* processes); inside a run the documents' tasks are driven by a p-queue   *)
(* of bounded concurrency and interleave at their await points.            *)
(***************************************************************************)
EXTENDS Integers, Sequences, FiniteSets, TLC

\* ---------------------------------------------------------------- bounds
NumDocs == 2
MaxPages == 2
MaxConcurrency == 2
MaxRuns == 3

Docs == 1..NumDocs

\* ------------------------------------------------- JSON objects as functions
\* A JSON object is a function whose domain is the set of keys it has.
EmptyObj == [k \in {} |-> 0]
Has(o, k) == k \in DOMAIN o
Put(o, k, v) == [x \in DOMAIN o \cup {k} |-> IF x = k THEN v ELSE o[x]]

\* ------------------------------------------------------------ configuration
\* rasterize.js:21-28
DEFAULT_RESOLUTIONS ==
  << [dpi |-> 75,  folder |-> "r75",  quality |-> 80, lossless |-> FALSE],
     [dpi |-> 100, folder |-> "r100", quality |-> 80, lossless |-> FALSE],
     [dpi |-> 150, folder |-> "r150", quality |-> 82, lossless |-> FALSE],
     [dpi |-> 200, folder |-> "r200", quality |-> 84, lossless |-> FALSE],
     [dpi |-> 250, folder |-> "r250", quality |-> 86, lossless |-> FALSE],
     [dpi |-> 300, folder |-> "r300", quality |-> 90, lossless |-> FALSE] >>

\* A configured pyramid; its second entry names no folder (res.folder ?? `r${dpi}`).
CustomResolutions ==
  << [dpi |-> 100, folder |-> "r100", quality |-> 80],
     [dpi |-> 300, lossless |-> TRUE] >>

\* The values config/root.json may give the "rasterize" section: absent (the
\* code reads it with rasterize?.), or present with the configured pyramid
\* and a concurrency, itself absent (the limit is then 1) or 2..MaxConcurrency.
ConfigOf(n) ==
  LET c == Put(EmptyObj, "resolutions", CustomResolutions)
  IN  IF n = 1 THEN c ELSE Put(c, "concurrency", n)

RasterizeConfigs == {EmptyObj} \cup { ConfigOf(n) : n \in 1..MaxConcurrency }

VARIABLES
  rasterize,   \* the "rasterize" section of config/root.json
  numPages,    \* numPages[d]: pages of staging/<d>/input/document.pdf
  disk,        \* disk[d]: staging/<d>/manifest.json
  files,       \* the pyramid files on disk: <<d, folder, name>>
  now,         \* the clock the timestamps are read from
  stage,       \* the stage the current process runs
  mainpc,      \* where the stage's entry point is
  task,        \* task[d]: the queue's task for document d
  allowedTypes,\* the labels the current classify run read from config/docTypes
  before,      \* disk as the current run found it
  filesBefore, \* files as the current run found them
  written,     \* the pyramid files the current run has written
  calls,       \* calls[d]: how the current run's inference call for d stands
  prevCalls,   \* calls as the previous run left them
  incoming,    \* the incoming directory the assembler reads
  asm,         \* where the assembler's entry point is, and what it holds
  assembled,   \* <<k, pages>>: the pages of staging/<k>/input/document.pdf
  indexFile,   \* staging/_assemble_index.json
  inputDir,    \* the input directory the ingest script reads
  ingest,      \* where the ingest script is, and its queue's tasks
  stagingDir,  \* the entries of the staging directory a stage lists
  submitted,   \* the entries the listing stage has called queue.add for
  args,        \* the arguments of a function called on its own
  result,      \* what the call returned, once it has
  beside       \* a classify process running beside the rasterize stage

\* The rasterize and classify stages' variables
pipeVars == << rasterize, numPages, disk, files, now, stage, mainpc, task,
               allowedTypes, before, filesBefore, written, calls, prevCalls >>

assembleVars == << incoming, asm, assembled, indexFile >>
ingestVars == << inputDir, ingest >>
listingVars == << stagingDir, submitted >>
callVars == << args, result >>
besideVars == << beside >>

\* The variables of the other programs of the repository
otherVars == << assembleVars, ingestVars, listingVars, callVars, besideVars >>

vars == << pipeVars, otherVars >>

\* The other programs are not running.
AssemblerOff ==
  /\ incoming = {}
  /\ asm = [pc |-> "off"]
  /\ assembled = {}
  /\ indexFile = << >>

IngestOff ==
  /\ inputDir = {}
  /\ ingest = [pc |-> "off"]

ListingOff ==
  /\ stagingDir = {}
  /\ submitted = {}

CallOff ==
  /\ args = << >>
  /\ result = << >>

\* No classify process runs beside the stage.
BesideOff == beside = [mainpc |-> "off"]

\* rasterize.js:30-32
RESOLUTIONS ==
  IF Has(rasterize, "resolutions") /\ Len(rasterize.resolutions) > 0
  THEN rasterize.resolutions
  ELSE DEFAULT_RESOLUTIONS

\* rasterize.js:34  new PQueue({ concurrency: rasterize?.concurrency ?? 1 })
Concurrency == IF Has(rasterize, "concurrency") THEN rasterize.concurrency ELSE 1

\* rasterize.js:111  res.folder ?? `r${res.dpi}`
Folder(res) == IF Has(res, "folder") THEN res.folder ELSE "r" \o ToString(res.dpi)

\* A faulty variant: the pages are taken from the last to the first
PageIdxDescending(pageNumber) == MaxPages + 1 - pageNumber

\* A faulty variant: pages are numbered from 0, like the loop of an array
PageIdxFromZero(pageNumber) == pageNumber - 1

\* rasterize.js:106  const pageIdx = pageNumber
PageIdx(pageNumber) == pageNumber

\* rasterize.js:126  `p${pageIdx}.webp`
WebpName(pageIdx) == "p" \o ToString(pageIdx) \o ".webp"

\* rasterize.js:158  the resolution list recorded in stages.rasterize
ResolutionList ==
  [i \in 1..Len(RESOLUTIONS) |->
     [dpi |-> RESOLUTIONS[i].dpi, folder |-> Folder(RESOLUTIONS[i])]]

\* ------------------------------------------------------------ manifest store
\* manifest.json: absent, unparseable, or a parsed JSON object.
NoFile == [st |-> "none", json |-> EmptyObj]
CorruptFile == [st |-> "corrupt", json |-> EmptyObj]
JsonFile(m) == [st |-> "ok", json |-> m]

\* A manifest an earlier tool left: it has an entry of another stage and a
\* field of its own, and lacks input, pages and updatedAt.
EarlierManifest(d) ==
  JsonFile([docId |-> d, createdAt |-> 0, source |-> "incoming",
            stages |-> [assemble |-> [finishedAt |-> 0]]])

\* What staging/<d>/manifest.json may be when the first run starts.
InitialKinds == {"none", "corrupt", "earlier"}
InitialFile(kind, d) ==
  CASE kind = "none" -> NoFile
    [] kind = "corrupt" -> CorruptFile
    [] kind = "earlier" -> EarlierManifest(d)

\* A JSON value that is no object where an object is looked for: null, or a
\* text.  Where the list of pages is looked for such a value stands wrapped.
JsonNull == [json |-> "null"]
JsonText == [json |-> "text"]
NotObjects == { JsonNull, JsonText }
NotArrays == { << v >> : v \in NotObjects }

\* v && typeof v === 'object' (rasterize.js:41, 46, 48)
IsObject(v) == v \notin NotObjects

\* Array.isArray(v) (rasterize.js:47)
IsArray(v) == v \notin NotArrays

\* A faulty variant: the list of pages is emptied whatever the manifest holds
normalizeManifestEmptyPages(manifest, docId) ==
  LET m0 == IF IsObject(manifest) THEN manifest ELSE EmptyObj
      m1 == IF Has(m0, "docId") THEN m0 ELSE Put(m0, "docId", docId)
      m2 == IF Has(m1, "createdAt") THEN m1 ELSE Put(m1, "createdAt", now)
      m3 == IF Has(m2, "updatedAt") THEN m2 ELSE Put(m2, "updatedAt", now)
      m4 == IF Has(m3, "input") /\ IsObject(m3.input) THEN m3 ELSE Put(m3, "input", EmptyObj)
      m5 == Put(m4, "pages", << >>)
      m6 == IF Has(m5, "stages") /\ IsObject(m5.stages) THEN m5 ELSE Put(m5, "stages", EmptyObj)
  IN  m6

\* rasterize.js:40-51.  The manifests of the model hold numbers in docId,
\* createdAt and updatedAt, never null.
normalizeManifest(manifest, docId) ==
  LET m0 == IF IsObject(manifest) THEN manifest ELSE EmptyObj
      m1 == IF Has(m0, "docId") THEN m0 ELSE Put(m0, "docId", docId)
      m2 == IF Has(m1, "createdAt") THEN m1 ELSE Put(m1, "createdAt", now)
      m3 == IF Has(m2, "updatedAt") THEN m2 ELSE Put(m2, "updatedAt", now)
      m4 == IF Has(m3, "input") /\ IsObject(m3.input) THEN m3 ELSE Put(m3, "input", EmptyObj)
      m5 == IF Has(m4, "pages") /\ IsArray(m4.pages) THEN m4 ELSE Put(m4, "pages", << >>)
      m6 == IF Has(m5, "stages") /\ IsObject(m5.stages) THEN m5 ELSE Put(m5, "stages", EmptyObj)
  IN  m6

\* A faulty variant: every run starts from a fresh manifest, as the ingest script does
loadFreshManifest(file, docId) == normalizeManifest(JsonNull, docId)

\* rasterize.js:72-81 (fs.readJson throws on an unparseable file: see LoadManifest)
loadOrCreateManifest(file, docId) ==
  IF file.st = "ok" THEN normalizeManifest(file.json, docId)
  ELSE normalizeManifest(JsonNull, docId)

\* rasterize.js:83-86
saveManifest(manifest) == JsonFile(Put(manifest, "updatedAt", now))

\* rasterize.js:152-159  what processOneDoc sets before rasterizing
MarkStarted(manifest) ==
  LET m1 == Put(manifest, "input",
                Put(manifest.input, "assembledPdf", "input/document.pdf"))
  IN  Put(m1, "stages",
          Put(m1.stages, "rasterize",
              [startedAt |-> now, resolutions |-> ResolutionList]))

\* A faulty variant: the new pages are appended to the pages the manifest had
MarkFinishedAppending(manifest, pages) ==
  LET m1 == Put(manifest, "pages", manifest.pages \o pages)
      r1 == Put(m1.stages.rasterize, "finishedAt", now)
      r2 == Put(r1, "pageCount", Len(pages))
  IN  Put(m1, "stages", Put(m1.stages, "rasterize", r2))

\* rasterize.js:163-165  what processOneDoc sets after rasterizing
MarkFinished(manifest, pages) ==
  LET m1 == Put(manifest, "pages", pages)
      r1 == Put(m1.stages.rasterize, "finishedAt", now)
      r2 == Put(r1, "pageCount", Len(pages))
  IN  Put(m1, "stages", Put(m1.stages, "rasterize", r2))

\* The outcome of each document's latest inference call, as a new run finds it.
LatestCalls ==
  [d \in Docs |-> IF calls[d] \in {"answered", "failed"} THEN calls[d] ELSE prevCalls[d]]

\* ------------------------------------------------------------------ p-queue
\* A task is not submitted ("none"), waiting ("queued"), started and not yet
\* settled ("running"), resolved ("done") or rejected ("failed").
IdleTask(st) ==
  [st |-> st, pc |-> "-", manifest |-> EmptyObj, pageNumber |-> 0, resIdx |-> 0,
   pagesInfo |-> << >>, pageEntry |-> EmptyObj]

Active(t) == { d \in Docs : t[d].st = "running" }
Queued(t) == { d \in Docs : t[d].st = "queued" }
Settled(t) == { d \in Docs : t[d].st \in {"done", "failed"} }

\* The first queued task in submission order (the queue is FIFO and the
\* documents are submitted in listing order).
FirstQueued(t) == CHOOSE d \in Queued(t) : \A e \in Queued(t) : d <= e

\* A faulty variant: the limit is compared off by one
HasFreeSlotOffByOne(t, limit) == Cardinality(Active(t)) <= limit

\* Whether the queue may start another task: fewer than `limit` are running.
HasFreeSlot(t, limit) == Cardinality(Active(t)) < limit

\* p-queue starts queued tasks, in order, while it has a free slot; a started
\* task runs to its first await, at position pc0.
RECURSIVE TryToStart(_, _, _)
TryToStart(t, limit, pc0) ==
  IF Queued(t) # {} /\ HasFreeSlot(t, limit)
  THEN TryToStart([t EXCEPT ![FirstQueued(t)].st = "running",
                            ![FirstQueued(t)].pc = pc0], limit, pc0)
  ELSE t

\* queue.add for each listed document, in order (rasterize.js:188-192).
Submit(docs, limit, pc0) ==
  TryToStart([d \in Docs |-> IF d \in docs THEN IdleTask("queued") ELSE IdleTask("none")],
             limit, pc0)

\* A task settles: its slot is freed and the queue starts the next one.
Settle(t, d, outcome, limit, pc0) ==
  TryToStart([t EXCEPT ![d] = IdleTask(outcome)], limit, pc0)

\* A faulty variant: a rejected task takes the waiting tasks down with it
RejectCancelsQueue(t, d, limit, pc0) ==
  [e \in Docs |-> IF e = d THEN IdleTask("failed")
                  ELSE IF t[e].st = "queued" THEN IdleTask("none") ELSE t[e]]

\* rasterize.js:189-191: processOneDoc rejects; the .catch on the promise of
\* queue.add logs the error and the queue goes on.
Reject(t, d, limit, pc0) == Settle(t, d, "failed", limit, pc0)

\* A faulty variant: the queue counts as idle as soon as nothing waits (onEmpty)
IsIdleWhenEmpty(t) == Queued(t) = {}

\* rasterize.js:194  queue.onIdle(): nothing waits and nothing runs
IsIdle(t) == Queued(t) = {} /\ Active(t) = {}

\* ----------------------------------------------------------- rasterize stage
\* A faulty variant: a document whose manifest has stages.rasterize.finishedAt
\* is left out of the run
listDocsNotYetRasterized ==
  { d \in Docs :
      ~ /\ disk[d].st = "ok"
        /\ Has(disk[d].json, "stages")
        /\ Has(disk[d].json.stages, "rasterize")
        /\ Has(disk[d].json.stages.rasterize, "finishedAt") }

\* rasterize.js:53-70: every document of the model is a subdirectory of
\* staging holding input/document.pdf, listed in naturalSort order.
listDocsInStaging == Docs

\* rasterize.js:172-192: a new process runs the stage up to `await queue.onIdle()`.
RunRasterizeStage ==
  /\ mainpc \in {"idle", "done", "crashed"}
  /\ now < MaxRuns
  /\ now' = now + 1
  /\ stage' = "rasterize"
  /\ IF listDocsInStaging = {}
     THEN /\ task' = [d \in Docs |-> IdleTask("none")]
          /\ mainpc' = "done"
     ELSE /\ task' = Submit(listDocsInStaging, Concurrency, "load")
          /\ mainpc' = "draining"
  /\ before' = disk
  /\ filesBefore' = files
  /\ written' = {}
  /\ calls' = [d \in Docs |-> "none"]
  /\ prevCalls' = LatestCalls
  /\ UNCHANGED << rasterize, numPages, disk, files, allowedTypes >>
  /\ UNCHANGED otherVars

Running(d, st, pc) ==
  /\ stage = st
  /\ mainpc = "draining"
  /\ task[d].st = "running"
  /\ task[d].pc = pc

\* rasterize.js:149-159: load or create the manifest, mark the stage started.
\* An unparseable manifest.json makes fs.readJson throw: the task rejects.
LoadManifest(d) ==
  /\ Running(d, "rasterize", "load")
  /\ IF disk[d].st = "corrupt"
     THEN task' = Reject(task, d, Concurrency, "load")
     ELSE task' = [task EXCEPT
            ![d].manifest = MarkStarted(loadOrCreateManifest(disk[d], d)),
            ![d].pc = "open"]
  /\ UNCHANGED << rasterize, numPages, disk, files, now, stage, mainpc,
                  allowedTypes, before, filesBefore, written, calls, prevCalls >>
  /\ UNCHANGED otherVars

\* rasterize.js:91-104: read the PDF and open it; enter the page loop.
OpenPdf(d) ==
  /\ Running(d, "rasterize", "open")
  /\ task' = [task EXCEPT
        ![d].pageNumber = 1,
        ![d].resIdx = 1,
        ![d].pc = IF 1 <= numPages[d] THEN "render" ELSE "save"]
  /\ UNCHANGED << rasterize, numPages, disk, files, now, stage, mainpc,
                  allowedTypes, before, filesBefore, written, calls, prevCalls >>
  /\ UNCHANGED otherVars

\* rasterize.js:105-137: one pass of the inner loop: render the page at one
\* resolution, encode it, write the file, name it in the page's entry; after
\* the last resolution push the entry and go to the next page.
RenderOne(d) ==
  /\ Running(d, "rasterize", "render")
  /\ LET t == task[d]
         res == RESOLUTIONS[t.resIdx]
         folder == Folder(res)
         pageIdx == PageIdx(t.pageNumber)
         webpName == WebpName(pageIdx)
         entry0 == IF t.resIdx = 1 THEN [index |-> pageIdx] ELSE t.pageEntry
         entry1 == Put(entry0, folder, webpName)
         last == t.resIdx = Len(RESOLUTIONS)
     IN  /\ files' = files \cup { << d, folder, webpName >> }
         /\ written' = written \cup { << d, folder, webpName >> }
         /\ task' = [task EXCEPT
               ![d].pageEntry = IF last THEN EmptyObj ELSE entry1,
               ![d].pagesInfo = IF last THEN Append(t.pagesInfo, entry1) ELSE t.pagesInfo,
               ![d].resIdx = IF last THEN 1 ELSE t.resIdx + 1,
               ![d].pageNumber = IF last THEN t.pageNumber + 1 ELSE t.pageNumber,
               ![d].pc = IF last /\ t.pageNumber + 1 > numPages[d] THEN "save" ELSE "render"]
  /\ UNCHANGED << rasterize, numPages, disk, now, stage, mainpc,
                  allowedTypes, before, filesBefore, calls, prevCalls >>
  /\ UNCHANGED otherVars

\* rasterize.js:91-131, 189-191: reading or opening the PDF, getPage, render
\* or encode throws; processOneDoc rejects and the .catch logs it.
RasterizeFails(d) ==
  /\ \/ Running(d, "rasterize", "open")
     \/ Running(d, "rasterize", "render")
  /\ task' = Reject(task, d, Concurrency, "load")
  /\ UNCHANGED << rasterize, numPages, disk, files, now, stage, mainpc,
                  allowedTypes, before, filesBefore, written, calls, prevCalls >>
  /\ UNCHANGED otherVars

\* rasterize.js:163-169: set pages, finishedAt, pageCount and save.
SaveRasterized(d) ==
  /\ Running(d, "rasterize", "save")
  /\ disk' = [disk EXCEPT ![d] = saveManifest(MarkFinished(task[d].manifest, task[d].pagesInfo))]
  /\ task' = Settle(task, d, "done", Concurrency, "load")
  /\ UNCHANGED << rasterize, numPages, files, now, stage, mainpc,
                  allowedTypes, before, filesBefore, written, calls, prevCalls >>
  /\ UNCHANGED otherVars

\* ------------------------------------------------------------ classify stage
\* Text the classifier handles is a sequence of characters.
UpperCase == << "A","B","C","D","E","F","G","H","I","J","K","L","M",
               "N","O","P","Q","R","S","T","U","V","W","X","Y","Z" >>
LowerCase == << "a","b","c","d","e","f","g","h","i","j","k","l","m",
               "n","o","p","q","r","s","t","u","v","w","x","y","z" >>
WhiteSpace == { " ", "\t", "\n", "\r" }

\* String.prototype.toLowerCase (classifier.js:71)
toLowerCase(str) ==
  [i \in 1..Len(str) |->
     IF \E k \in 1..Len(UpperCase) : UpperCase[k] = str[i]
     THEN LowerCase[CHOOSE k \in 1..Len(UpperCase) : UpperCase[k] = str[i]]
     ELSE str[i]]

\* String.prototype.trim (classifier.js:71)
RECURSIVE trimStart(_)
trimStart(str) ==
  IF str # << >> /\ Head(str) \in WhiteSpace THEN trimStart(Tail(str)) ELSE str

RECURSIVE trimEnd(_)
trimEnd(str) ==
  IF str # << >> /\ str[Len(str)] \in WhiteSpace
  THEN trimEnd(SubSeq(str, 1, Len(str) - 1))
  ELSE str

trim(str) == trimEnd(trimStart(str))

\* classifier.js:74  detectedType.replace(/[.\"\']/g, '')
IsKept(c) == c \notin { ".", "\"", "'" }
stripDotsAndQuotes(str) == SelectSeq(str, IsKept)

\* classifier.js:71-74  the label text after lowercasing, trimming and stripping
cleanLabel(content) == stripDotsAndQuotes(trim(toLowerCase(content)))

UNKNOWN == << "u","n","k","n","o","w","n" >>
INVOICE == << "i","n","v","o","i","c","e" >>
RECEIPT == << "r","e","c","e","i","p","t" >>

\* A faulty variant: the cleaned label is stored without the check against the list
detectTypeUnchecked(content, allowed) == cleanLabel(content)

\* classifier.js:71-80  the docType stored for a response's content
detectType(content, allowed) ==
  IF cleanLabel(content) \in allowed THEN cleanLabel(content) ELSE UNKNOWN

\* classifier.js:15-16  the label lists config/docTypes may hold
AllowLists == { {INVOICE, RECEIPT}, {RECEIPT} }

\* The message contents the inference endpoint may answer with.
Responses ==
  { << "I","n","v","o","i","c","e","." >>,
    << "s","o","m","e","t","h","i","n","g"," ","e","l","s","e" >>,
    << " ","\"","R","e","c","e","i","p","t","\"","\n" >>,
    << "i","n","v","o","i","c","e"," ","." >>,
    << "u","n","k","n","o","w","n" >> }

\* config/root.json vlm.model
VlmModel == "vlm-1"

\* A faulty variant: the comparison with the sentinel is inverted
alreadyClassifiedInverted(manifest) ==
  Has(manifest, "docType") /\ manifest.docType = UNKNOWN

\* classifier.js:34  manifest.docType && manifest.docType !== 'unknown'
alreadyClassified(manifest) ==
  Has(manifest, "docType") /\ manifest.docType # UNKNOWN

\* classifier.js:39-40  the representative page image
imageExists(d) == << d, "r100", "p1.webp" >> \in files

\* classifier.js:83-84
setDocType(manifest, detectedType) ==
  Put(Put(manifest, "docType", detectedType), "classifierModel", VlmModel)

\* A faulty variant: the classifier's queue runs two tasks at once
ClassifyConcurrencyOfTwo == 1 + 1

\* classifier.js:11-25: a new process runs the classifier up to queue.onIdle();
\* the queue is new PQueue({ concurrency: 1 }) (classifier.js:9).
ClassifyConcurrency == 1

RunClassifier ==
  /\ mainpc \in {"idle", "done", "crashed"}
  /\ now < MaxRuns
  /\ now' = now + 1
  /\ stage' = "classify"
  /\ allowedTypes' \in AllowLists
  /\ task' = Submit(Docs, ClassifyConcurrency, "read")
  /\ mainpc' = "draining"
  /\ before' = disk
  /\ filesBefore' = files
  /\ written' = {}
  /\ calls' = [d \in Docs |-> "none"]
  /\ prevCalls' = LatestCalls
  /\ UNCHANGED << rasterize, numPages, disk, files >>
  /\ UNCHANGED otherVars

\* classifier.js:30-52: read the manifest, skip a classified document or one
\* without its page image, otherwise send the request.  A missing or
\* unparseable manifest.json makes fs.readJson throw outside the try block:
\* the task rejects and nothing handles the rejection (classifier.js:22), so
\* the process goes on or is ended by the runtime, as it is configured.
ClassifyBegin(d) ==
  /\ Running(d, "classify", "read")
  /\ IF disk[d].st # "ok"
     THEN /\ \/ /\ task' = Settle(task, d, "failed", ClassifyConcurrency, "read")
                /\ mainpc' = mainpc
             \/ /\ task' = [task EXCEPT ![d] = IdleTask("failed")]
                /\ mainpc' = "crashed"
          /\ calls' = calls
     ELSE IF alreadyClassified(disk[d].json) \/ ~imageExists(d)
     THEN /\ task' = Settle(task, d, "done", ClassifyConcurrency, "read")
          /\ mainpc' = mainpc
          /\ calls' = calls
     ELSE /\ task' = [task EXCEPT ![d].manifest = disk[d].json, ![d].pc = "fetch"]
          /\ mainpc' = mainpc
          /\ calls' = [calls EXCEPT ![d] = "inflight"]
  /\ UNCHANGED << rasterize, numPages, disk, files, now, stage,
                  allowedTypes, before, filesBefore, written, prevCalls >>
  /\ UNCHANGED otherVars

\* classifier.js:70-87: the response arrives; normalize the label, check it
\* against the allowed types, write docType and classifierModel.
ClassifyAnswer(d) ==
  /\ Running(d, "classify", "fetch")
  /\ \E content \in Responses :
       disk' = [disk EXCEPT ![d] =
                  JsonFile(setDocType(task[d].manifest, detectType(content, allowedTypes)))]
  /\ calls' = [calls EXCEPT ![d] = "answered"]
  /\ task' = Settle(task, d, "done", ClassifyConcurrency, "read")
  /\ UNCHANGED << rasterize, numPages, files, now, stage, mainpc,
                  allowedTypes, before, filesBefore, written, prevCalls >>
  /\ UNCHANGED otherVars

\* A faulty variant: the catch block records the failure as docType "unknown"
ClassifyCallFailsAndWrites(d) ==
  /\ Running(d, "classify", "fetch")
  /\ disk' = [disk EXCEPT ![d] = JsonFile(setDocType(task[d].manifest, UNKNOWN))]
  /\ calls' = [calls EXCEPT ![d] = "failed"]
  /\ task' = Settle(task, d, "done", ClassifyConcurrency, "read")
  /\ UNCHANGED << rasterize, numPages, files, now, stage, mainpc,
                  allowedTypes, before, filesBefore, written, prevCalls >>
  /\ UNCHANGED otherVars

\* classifier.js:52-71, 89-91: fetch rejects, or the response is no JSON or
\* has no choices[0].message.content; the catch logs it and the task resolves.
ClassifyCallFails(d) ==
  /\ Running(d, "classify", "fetch")
  /\ calls' = [calls EXCEPT ![d] = "failed"]
  /\ task' = Settle(task, d, "done", ClassifyConcurrency, "read")
  /\ UNCHANGED << rasterize, numPages, disk, files, now, stage, mainpc,
                  allowedTypes, before, filesBefore, written, prevCalls >>
  /\ UNCHANGED otherVars

\* rasterize.js:194-196 / classifier.js:25-26: await queue.onIdle() returns.
OnIdle ==
  /\ mainpc = "draining"
  /\ IsIdle(task)
  /\ mainpc' = "done"
  /\ UNCHANGED << rasterize, numPages, disk, files, now, stage, task,
                  allowedTypes, before, filesBefore, written, calls, prevCalls >>
  /\ UNCHANGED otherVars

\* --------------------------------------------------------------------- Init
Init ==
  /\ rasterize \in RasterizeConfigs
  /\ numPages \in [Docs -> 1..MaxPages]
  /\ \E k \in [Docs -> InitialKinds] : disk = [d \in Docs |-> InitialFile(k[d], d)]
  \* the default pyramid (six resolutions) is run on one-page documents in a
  \* fresh staging directory
  /\ rasterize = EmptyObj =>
       /\ numPages = [d \in Docs |-> 1]
       /\ disk = [d \in Docs |-> NoFile]
  /\ files = {}
  /\ now = 0
  /\ stage = "none"
  /\ mainpc = "idle"
  /\ task = [d \in Docs |-> IdleTask("none")]
  /\ allowedTypes = {}
  /\ before = disk
  /\ filesBefore = files
  /\ written = {}
  /\ calls = [d \in Docs |-> "none"]
  /\ prevCalls = calls
  /\ AssemblerOff
  /\ IngestOff
  /\ ListingOff
  /\ CallOff
  /\ BesideOff

Next ==
  \/ RunRasterizeStage
  \/ \E d \in Docs : LoadManifest(d)
  \/ \E d \in Docs : OpenPdf(d)
  \/ \E d \in Docs : RenderOne(d)
  \/ \E d \in Docs : RasterizeFails(d)
  \/ \E d \in Docs : SaveRasterized(d)
  \/ RunClassifier
  \/ \E d \in Docs : ClassifyBegin(d)
  \/ \E d \in Docs : ClassifyAnswer(d)
  \/ \E d \in Docs : ClassifyCallFails(d)
  \/ OnIdle

Spec == Init /\ [][Next]_vars

\* One document's task takes its next step, whichever way it turns out.
RasterizeStep(d) ==
  LoadManifest(d) \/ OpenPdf(d) \/ RenderOne(d) \/ RasterizeFails(d) \/ SaveRasterized(d)

ClassifyStep(d) ==
  ClassifyBegin(d) \/ ClassifyAnswer(d) \/ ClassifyCallFails(d)

\* A staging directory no stage has written to yet, apart from manifests cut
\* short, and a configured pyramid.
InitConfigured ==
  /\ Init
  /\ rasterize # EmptyObj
  /\ \A d \in Docs : disk[d] \in {NoFile, CorruptFile}

\* The rasterize stage alone, run again and again.
NextRasterize ==
  \/ RunRasterizeStage
  \/ \E d \in Docs : RasterizeStep(d)
  \/ OnIdle

\* The event loop runs every continuation that is ready: a started task whose
\* awaited operation terminates goes on, and the entry point goes on once
\* onIdle resolves.  Nothing makes anyone start another run.
FairRasterizeSpec ==
  /\ InitConfigured
  /\ [][NextRasterize]_vars
  /\ \A d \in Docs : WF_vars(RasterizeStep(d))
  /\ WF_vars(OnIdle)

\* ------------------------------------------------------------------- claims
InRasterize == stage = "rasterize"
InClassify == stage = "classify"
Drained == mainpc = "done"

\* C1: in a rasterize run with concurrency limit N, never more than N
\* processOneDoc tasks are started and not yet settled.
C1_AtMostNActive ==
  InRasterize => Cardinality(Active(task)) <= Concurrency

\* C1 witness: the limit is reached while another document waits.
C1_Witness ==
  /\ InRasterize
  /\ Cardinality(Active(task)) = Concurrency
  /\ Queued(task) # {}

\* C2: in a rasterize run onIdle returns only after every submitted task has
\* settled, and, every task terminating, it eventually returns, also when
\* tasks throw.
C2_DrainAfterAllSettled ==
  /\ [](InRasterize /\ Drained => \A d \in listDocsInStaging : d \in Settled(task))
  /\ [](InRasterize /\ mainpc = "draining" => <>Drained)

\* C2 witness: the run has drained with a task that threw.
C2_Witness ==
  /\ InRasterize
  /\ Drained
  /\ \E d \in Docs : task[d].st = "failed"

\* stages.rasterize.finishedAt of a manifest file, if it has one
HasFinishedAt(file) ==
  /\ file.st = "ok"
  /\ Has(file.json, "stages")
  /\ Has(file.json.stages, "rasterize")
  /\ Has(file.json.stages.rasterize, "finishedAt")

\* C3: when one document's rasterization fails, every other document of the
\* run is still processed, and one that succeeds has its manifest saved with
\* stages.rasterize.finishedAt set (by this run).
C3_FailureIsIsolated ==
  InRasterize /\ Drained =>
    \A d \in listDocsInStaging :
      /\ d \in Settled(task)
      /\ task[d].st = "done" =>
           /\ HasFinishedAt(disk[d])
           /\ disk[d].json.stages.rasterize.finishedAt = now

\* C3 witness: a drained run in which one document failed and another was
\* rasterized and saved.
C3_Witness ==
  /\ InRasterize
  /\ Drained
  /\ \E d, e \in Docs :
       /\ task[d].st = "failed"
       /\ task[e].st = "done"
       /\ HasFinishedAt(disk[e])

\* C4 (as claimed): a document whose rasterization failed in a run has, after
\* the run, a persisted manifest without stages.rasterize.finishedAt,
\* whatever the manifest held before the run.
C4_FailedHasNoFinishedAt ==
  InRasterize /\ Drained =>
    \A d \in Docs : task[d].st = "failed" => ~HasFinishedAt(disk[d])

\* The pages of a manifest file are indexed 1..n in position order.
PagesContiguous(pages) == \A i \in 1..Len(pages) : pages[i].index = i

\* C5: a document rasterized successfully has a saved manifest whose pages
\* are indexed exactly 1..pageCount in order, and for every configured
\* resolution and every index i the file <folder>/p<i>.webp was written by
\* the run and is named in page i's entry.
C5_PagesAndPyramidComplete ==
  \A d \in Docs :
    InRasterize /\ task[d].st = "done" =>
      LET m == disk[d].json IN
        /\ disk[d].st = "ok"
        /\ m.stages.rasterize.pageCount = numPages[d]
        /\ Len(m.pages) = m.stages.rasterize.pageCount
        /\ PagesContiguous(m.pages)
        /\ \A r \in 1..Len(RESOLUTIONS) : \A i \in 1..Len(m.pages) :
             LET folder == Folder(RESOLUTIONS[r])
                 name == "p" \o ToString(i) \o ".webp"
             IN  /\ << d, folder, name >> \in written
                 /\ Has(m.pages[i], folder)
                 /\ m.pages[i][folder] = name

\* C5 witness: a document of more than one page was rasterized and saved.
C5_Witness ==
  \E d \in Docs :
    /\ InRasterize
    /\ task[d].st = "done"
    /\ Len(disk[d].json.pages) > 1

FilesOf(fs, d) == { f \in fs : f[1] = d }

\* C6: rasterizing again a document that an earlier run rasterized (same PDF,
\* same resolutions) leaves manifest.pages and the set of pyramid files as
\* they were after the earlier run.
C6_RerunIdempotent ==
  \A d \in Docs :
    InRasterize /\ task[d].st = "done" /\ HasFinishedAt(before[d]) =>
      /\ disk[d].json.pages = before[d].json.pages
      /\ FilesOf(files, d) = FilesOf(filesBefore, d)

\* C6 witness: a second successful rasterization of a document with pages.
C6_Witness ==
  \E d \in Docs :
    /\ InRasterize
    /\ task[d].st = "done"
    /\ HasFinishedAt(before[d])
    /\ disk[d] # before[d]
    /\ Len(before[d].json.pages) > 1

SubObj(o, k) == IF Has(o, k) THEN o[k] ELSE EmptyObj
KeepsFields(a, b, keys) == \A k \in keys : Has(b, k) /\ b[k] = a[k]

\* A rasterize run changed only input.assembledPdf, pages, stages.rasterize
\* and updatedAt of manifest a (giving b), filling in what a lacked.
RasterizeFrame(a, b) ==
  /\ KeepsFields(a, b, DOMAIN a \ {"input", "pages", "stages", "updatedAt"})
  /\ DOMAIN b \ DOMAIN a \subseteq
       {"docId", "createdAt", "updatedAt", "input", "pages", "stages"}
  /\ KeepsFields(SubObj(a, "stages"), b.stages, DOMAIN SubObj(a, "stages") \ {"rasterize"})
  /\ DOMAIN b.stages \ DOMAIN SubObj(a, "stages") \subseteq {"rasterize"}
  /\ KeepsFields(SubObj(a, "input"), b.input, DOMAIN SubObj(a, "input") \ {"assembledPdf"})
  /\ DOMAIN b.input \ DOMAIN SubObj(a, "input") \subseteq {"assembledPdf"}

\* A classify run changed only docType and classifierModel of manifest a.
ClassifyFrame(a, b) ==
  /\ DOMAIN b \ {"docType", "classifierModel"} = DOMAIN a \ {"docType", "classifierModel"}
  /\ KeepsFields(a, b, DOMAIN a \ {"docType", "classifierModel"})

\* C7: a stage run leaves the manifest fields of other stages untouched: a
\* rasterize run changes only input.assembledPdf, pages, stages.rasterize and
\* updatedAt, a classify run only docType and classifierModel.
C7_OtherStagesFieldsKept ==
  \A d \in Docs :
    disk[d] # before[d] =>
      /\ disk[d].st = "ok"
      /\ InRasterize => RasterizeFrame(before[d].json, disk[d].json)
      /\ InClassify => before[d].st = "ok" /\ ClassifyFrame(before[d].json, disk[d].json)

\* C7 witness: a rasterize run rewrote a manifest that held a docType and
\* another stage's entry.
C7_Witness ==
  \E d \in Docs :
    /\ InRasterize
    /\ disk[d] # before[d]
    /\ Has(before[d].json, "docType")
    /\ Has(before[d].json, "classifierModel")
    /\ Has(SubObj(before[d].json, "stages"), "assemble")

\* C8: in a classify run a document whose manifest carries a docType other
\* than "unknown" gets no inference call and its manifest is left as it was;
\* a call is made only for documents whose docType is absent or "unknown".
C8_ClassifiedIsSkipped ==
  \A d \in Docs :
    InClassify =>
      /\ (Has(before[d].json, "docType") /\ before[d].json.docType # UNKNOWN) =>
           calls[d] = "none" /\ disk[d] = before[d]
      /\ calls[d] # "none" =>
           \/ ~Has(before[d].json, "docType")
           \/ before[d].json.docType = UNKNOWN

\* C8 witness: the task of a document classified earlier has run and
\* returned, and another document's call was made.
C8_Witness ==
  \E d, e \in Docs :
    /\ InClassify
    /\ task[d].st = "done"
    /\ Has(before[d].json, "docType")
    /\ before[d].json.docType = INVOICE
    /\ calls[e] # "none"

\* What is stored for the answers "Invoice." and "something else" when the
\* allowed labels are invoice and receipt.
TypeForInvoiceDot ==
  detectType(<< "I","n","v","o","i","c","e","." >>, {INVOICE, RECEIPT})
TypeForSomethingElse ==
  detectType(<< "s","o","m","e","t","h","i","n","g"," ","e","l","s","e" >>,
             {INVOICE, RECEIPT})

\* C9: a docType the classifier persists is an allowed label or "unknown":
\* the answer is lowercased, trimmed, stripped of dots and quotes and kept
\* only if it is then in the allowed list ("Invoice." with {invoice, receipt}
\* gives "invoice", "something else" gives "unknown").
C9_DocTypeAllowedOrUnknown ==
  /\ \A d \in Docs :
       InClassify /\ calls[d] = "answered" =>
         /\ disk[d].st = "ok"
         /\ disk[d].json.docType \in allowedTypes \cup {UNKNOWN}
  /\ TypeForInvoiceDot = INVOICE
  /\ TypeForSomethingElse = UNKNOWN

\* C9 witness: one answer was kept as an allowed label and one was coerced
\* to "unknown".
C9_Witness ==
  \E d, e \in Docs :
    /\ InClassify
    /\ calls[d] = "answered"
    /\ calls[e] = "answered"
    /\ disk[d].json.docType \in allowedTypes
    /\ disk[e].json.docType = UNKNOWN

\* C10: a failed inference call is caught (the task resolves), the manifest
\* is not written, so docType stays as it was (unset), and the next classify
\* run that reaches the document calls the inference again.
C10_FailedCallIsRetried ==
  \A d \in Docs :
    InClassify =>
      /\ calls[d] = "failed" =>
           /\ task[d].st = "done"
           /\ disk[d] = before[d]
           /\ ~alreadyClassified(disk[d].json)
      /\ (prevCalls[d] = "failed" /\ d \in Settled(task)) => calls[d] # "none"

\* C10 witness: a call that failed in an earlier run is made again.
C10_Witness ==
  \E d \in Docs :
    /\ InClassify
    /\ prevCalls[d] = "failed"
    /\ calls[d] = "inflight"
    /\ ~Has(disk[d].json, "docType")

\* C11: in a classify run an error in one entry's task is caught at the task
\* boundary: the run is never ended with the error, it drains with every
\* submitted entry settled.
C11_ClassifyErrorIsCaught ==
  InClassify /\ mainpc # "draining" =>
    /\ mainpc = "done"
    /\ Settled(task) = Docs

\* ------------------------------------------------------- names and their order
\* A file or folder name is a sequence of characters.
Digits == << "0", "1", "2", "3", "4", "5", "6", "7", "8", "9" >>
IsDigit(c) == \E k \in 1..Len(Digits) : Digits[k] = c
DigitValue(c) == (CHOOSE k \in 1..Len(Digits) : Digits[k] = c) - 1
IsLetter(c) == \E k \in 1..Len(LowerCase) : c \in {LowerCase[k], UpperCase[k]}
LetterIndex(c) == CHOOSE k \in 1..Len(LowerCase) : c \in {LowerCase[k], UpperCase[k]}

\* The characters of the names that are neither digits nor letters, in the
\* order the collation gives them.
Punctuation == << " ", "_", "-", ":", "?", "." >>
PunctuationIndex(c) == CHOOSE k \in 1..Len(Punctuation) : Punctuation[k] = c

\* The digits a name starts with
RECURSIVE DigitRun(_)
DigitRun(s) ==
  IF s # << >> /\ IsDigit(Head(s)) THEN << Head(s) >> \o DigitRun(Tail(s)) ELSE << >>

RECURSIVE NumberOf(_)
NumberOf(ds) ==
  IF ds = << >> THEN 0
  ELSE 10 * NumberOf(SubSeq(ds, 1, Len(ds) - 1)) + DigitValue(ds[Len(ds)])

\* The weight the comparison gives one character under { sensitivity: 'base' }:
\* punctuation sorts before digits and digits before letters; a letter weighs
\* the same in either case.
BaseWeight(c) ==
  IF IsLetter(c) THEN << 3, LetterIndex(c) >> ELSE << 1, PunctuationIndex(c) >>

\* Under { numeric: true } a run of digits weighs as the number it writes.
RECURSIVE CollationKey(_)
CollationKey(s) ==
  IF s = << >> THEN << >>
  ELSE IF IsDigit(Head(s))
  THEN << << 2, NumberOf(DigitRun(s)) >> >>
         \o CollationKey(SubSeq(s, Len(DigitRun(s)) + 1, Len(s)))
  ELSE << BaseWeight(Head(s)) >> \o CollationKey(Tail(s))

WeightLess(v, w) == v[1] < w[1] \/ (v[1] = w[1] /\ v[2] < w[2])

RECURSIVE CompareKeys(_, _)
CompareKeys(k1, k2) ==
  IF k1 = << >> THEN (IF k2 = << >> THEN 0 ELSE -1)
  ELSE IF k2 = << >> THEN 1
  ELSE IF Head(k1) = Head(k2) THEN CompareKeys(Tail(k1), Tail(k2))
  ELSE IF WeightLess(Head(k1), Head(k2)) THEN -1 ELSE 1

\* String.prototype.localeCompare(b, 'ru', { numeric: true, sensitivity: 'base' })
localeCompare(a, b) == CompareKeys(CollationKey(a), CollationKey(b))

\* part_000:14-16 and rasterize.js:36-38
naturalSort(a, b) == localeCompare(a, b)

\* Array.prototype.sort with naturalSort on the name: the sort is stable and
\* fs.readdir promises no order, so names that compare equal come out in any
\* order.
Sorted(S) ==
  { seq \in [1..Cardinality(S) -> S] :
      /\ \A x \in S : \E i \in 1..Cardinality(S) : seq[i] = x
      /\ \A i, j \in 1..Cardinality(S) :
           i < j => naturalSort(seq[i].name, seq[j].name) <= 0 }

\* String.prototype.startsWith (part_000:29, rasterize.js:59)
startsWith(name, c) == name # << >> /\ name[1] = c

\* path.extname: from the last dot on, unless the name has none after its
\* first character.
extname(name) ==
  LET dots == { i \in 2..Len(name) : name[i] = "." }
  IN  IF dots = {} THEN << >>
      ELSE SubSeq(name, CHOOSE i \in dots : \A j \in dots : j <= i, Len(name))

\* ------------------------------------------------------------ assemble input
\* part_000:5-12
allowedPdfExt == { << ".", "p", "d", "f" >> }
allowedImageExt ==
  { << ".", "j", "p", "g" >>, << ".", "j", "p", "e", "g" >>,
    << ".", "p", "n", "g" >>, << ".", "w", "e", "b", "p" >> }

\* part_000:18-22: the characters Windows forbids in a name become "_",
\* then the name is trimmed.
ForbiddenChars == { "<", ">", ":", "\"", "/", "\\", "|", "?", "*" }
safeDocKey(name) ==
  trim([i \in 1..Len(name) |-> IF name[i] \in ForbiddenChars THEN "_" ELSE name[i]])

\* The names in the incoming directory and the files a folder may hold,
\* with the number of pages of each PDF.
IncomingNames == { << "d", "2" >>, << "d", "1", "0" >>, << "s", ".", "p", "d", "f" >> }
PartPages ==
  { [name |-> << "1", ".", "p", "d", "f" >>, pages |-> MaxPages],
    [name |-> << "2", ".", "p", "n", "g" >>, pages |-> 1],
    [name |-> << "1", "0", ".", "P", "D", "F" >>, pages |-> 1],
    [name |-> << "n", ".", "t", "x", "t" >>, pages |-> 0] }

\* An entry of the incoming directory: a file, or a folder of files.
IncomingEntry(name, kind, parts) ==
  IF kind = "file"
  THEN [name |-> name, isDirectory |-> FALSE, pages |-> 1, parts |-> {}]
  ELSE [name |-> name, isDirectory |-> TRUE, pages |-> 0, parts |-> parts]

\* The directories the assembler may find: each name is absent, a file or a
\* folder holding any of the part files.
IncomingDirsOver(names) ==
  { { IncomingEntry(n, kind[n], parts[n]) : n \in { n \in names : kind[n] # "absent" } } :
      << kind, parts >> \in
        { kp \in [names -> {"absent", "file", "folder"}]
                   \X [names -> SUBSET PartPages] :
            \A n \in names : kp[1][n] # "folder" => kp[2][n] = {} } }
IncomingDirs == IncomingDirsOver(IncomingNames)

\* The pages of a PDF or image file, each named by its file and position
PagesOf(path, n) == [k \in 1..n |-> << path, k >>]

\* part_000:24-44: skip dot names; a directory is a folder document, a file
\* with the PDF extension is a file document; sort by name.
listIncomingDocuments(entries) ==
  Sorted({ [kind |-> IF e.isDirectory THEN "folder" ELSE "file", name |-> e.name] :
             e \in { e \in entries :
                       /\ ~startsWith(e.name, ".")
                       /\ e.isDirectory \/ toLowerCase(extname(e.name)) \in allowedPdfExt } })

\* part_000:46-62: the files of the folder with a supported extension, sorted.
listFolderParts(entries) ==
  Sorted({ [name |-> f.name, ext |-> toLowerCase(extname(f.name)), pages |-> f.pages] :
             f \in { f \in entries :
                       /\ ~startsWith(f.name, ".")
                       /\ toLowerCase(extname(f.name)) \in allowedPdfExt \cup allowedImageExt } })

\* Array.prototype.filter on a list of parts (part_000:117-118)
RECURSIVE filterExt(_, _)
filterExt(parts, exts) ==
  IF parts = << >> THEN << >>
  ELSE (IF Head(parts).ext \in exts THEN << Head(parts) >> ELSE << >>)
         \o filterExt(Tail(parts), exts)

\* part_000:64-75: the pages of each PDF in turn, copied in order.
RECURSIVE mergePdfsToBytes(_, _)
mergePdfsToBytes(folder, pdfs) ==
  IF pdfs = << >> THEN << >>
  ELSE PagesOf(<< folder, Head(pdfs).name >>, Head(pdfs).pages)
         \o mergePdfsToBytes(folder, Tail(pdfs))

\* part_000:77-99: one page for each image, in order.
RECURSIVE imagesToPdfBytes(_, _)
imagesToPdfBytes(folder, imgs) ==
  IF imgs = << >> THEN << >>
  ELSE PagesOf(<< folder, Head(imgs).name >>, 1) \o imagesToPdfBytes(folder, Tail(imgs))

\* part_000:124-135: the bytes written for a folder, given its sorted parts;
\* with both PDFs and images among them only the PDFs are merged.
mergedBytes(folder, parts) ==
  LET pdfs == filterExt(parts, allowedPdfExt)
      imgs == filterExt(parts, allowedImageExt)
  IN  IF pdfs # << >> /\ imgs = << >> THEN mergePdfsToBytes(folder, pdfs)
      ELSE IF pdfs = << >> /\ imgs # << >> THEN imagesToPdfBytes(folder, imgs)
      ELSE mergePdfsToBytes(folder, pdfs)

\* fs.copyFile / fs.writeFile on staging/<docKey>/input/document.pdf
WriteDocumentPdf(docKey, pages) ==
  { f \in assembled : f[1] # docKey } \cup { << docKey, pages >> }

Entry(entries, name) == CHOOSE e \in entries : e.name = name

\* part_000:143-157: list the incoming documents; leave if there are none.
RunAssembleInput ==
  /\ asm.pc = "idle"
  /\ \E docs \in listIncomingDocuments(incoming) :
       asm' = [pc |-> IF docs = << >> THEN "done" ELSE "loop",
               docs |-> docs, i |-> 1, results |-> << >>, error |-> << >>]
  /\ UNCHANGED << incoming, assembled, indexFile >>
  /\ UNCHANGED << pipeVars, besideVars, ingestVars, listingVars, callVars >>

\* part_000:101-141, 160-165: one pass of the loop awaits assembleOneDocument
\* for the next document.  When it throws for a folder without supported
\* files nothing in the loop catches it: runAssembleInput rejects and the
\* handler at part_000:183-186 sets the exit code.
AssembleOneDocument ==
  /\ asm.pc = "loop"
  /\ LET doc == asm.docs[asm.i]
         e == Entry(incoming, doc.name)
         docKey == safeDocKey(doc.name)
         more == [asm EXCEPT !.i = asm.i + 1,
                             !.results = Append(asm.results, [docKey |-> docKey]),
                             !.pc = IF asm.i = Len(asm.docs) THEN "index" ELSE "loop"]
     IN  IF doc.kind = "file"
         THEN /\ assembled' = WriteDocumentPdf(docKey, PagesOf(<< doc.name >>, e.pages))
              /\ asm' = more
         ELSE \E parts \in listFolderParts(e.parts) :
                IF parts = << >>
                THEN /\ asm' = [asm EXCEPT !.pc = "failed", !.error = << doc.name >>]
                     /\ assembled' = assembled
                ELSE /\ assembled' = WriteDocumentPdf(docKey, mergedBytes(doc.name, parts))
                     /\ asm' = more
  /\ UNCHANGED << incoming, indexFile >>
  /\ UNCHANGED << pipeVars, besideVars, ingestVars, listingVars, callVars >>

\* part_000:167-180: after the loop, write staging/_assemble_index.json.
WriteAssembleIndex ==
  /\ asm.pc = "index"
  /\ indexFile' = << asm.results >>
  /\ asm' = [asm EXCEPT !.pc = "done"]
  /\ UNCHANGED << incoming, assembled >>
  /\ UNCHANGED << pipeVars, besideVars, ingestVars, listingVars, callVars >>

\* The rasterize and classify stages are not running and staging holds no
\* manifest.
PipelineOff ==
  /\ BesideOff
  /\ numPages = [d \in Docs |-> 1]
  /\ disk = [d \in Docs |-> NoFile]
  /\ files = {}
  /\ now = 0
  /\ stage = "none"
  /\ mainpc = "idle"
  /\ task = [d \in Docs |-> IdleTask("none")]
  /\ allowedTypes = {}
  /\ before = disk
  /\ filesBefore = files
  /\ written = {}
  /\ calls = [d \in Docs |-> "none"]
  /\ prevCalls = calls

InitAssemble ==
  /\ rasterize = EmptyObj
  /\ PipelineOff
  /\ IngestOff
  /\ ListingOff
  /\ CallOff
  /\ incoming \in IncomingDirs
  /\ asm = [pc |-> "idle"]
  /\ assembled = {}
  /\ indexFile = << >>

NextAssemble ==
  \/ RunAssembleInput
  \/ AssembleOneDocument
  \/ WriteAssembleIndex

\* One run of the assembler over an incoming directory
AssembleSpec == InitAssemble /\ [][NextAssemble]_vars

\* The folder documents of the incoming directory with a supported file, and
\* its file documents
Assemblable ==
  { e \in incoming :
      /\ ~startsWith(e.name, ".")
      /\ IF e.isDirectory
         THEN \E parts \in listFolderParts(e.parts) : parts # << >>
         ELSE toLowerCase(extname(e.name)) \in allowedPdfExt }

AssembleEnded == asm.pc \in {"done", "failed"}

\* C12: when an assemble run has ended, every discovered document other than
\* the folders without supported files has its document.pdf in staging, also
\* when such a folder made its own assembly fail.
C12_SiblingsStillAssembled ==
  AssembleEnded =>
    \A e \in Assemblable : \E f \in assembled : f[1] = safeDocKey(e.name)

\* The pages of every supported part in turn: a PDF gives its pages, an
\* image gives one page.
RECURSIVE PagesOfParts(_, _)
PagesOfParts(folder, parts) ==
  IF parts = << >> THEN << >>
  ELSE PagesOf(<< folder, Head(parts).name >>,
               IF Head(parts).ext \in allowedPdfExt THEN Head(parts).pages ELSE 1)
         \o PagesOfParts(folder, Tail(parts))

\* The document the assembler has just written
LastAssembled == asm.docs[Len(asm.results)]

\* C13: the document.pdf written for a folder document holds the pages of its
\* supported parts, PDFs and images alike, in the natural order of the parts'
\* names, each part's pages in their own order and one page for an image.
C13_PagesInPartOrder ==
  asm.pc \in {"loop", "index", "done"} /\ asm.results # << >>
                                       /\ LastAssembled.kind = "folder" =>
    \E parts \in listFolderParts(Entry(incoming, LastAssembled.name).parts) :
      << safeDocKey(LastAssembled.name), PagesOfParts(LastAssembled.name, parts) >>
        \in assembled

\* ------------------------------------------------------ a save that is cut short
\* rasterize.js:83-86 and classifier.js:85 write manifest.json in place with
\* fs.writeJson, which truncates the file and then writes the text.  A process
\* killed in between leaves the file with part of the text.
SaveIsCutShort(d) ==
  /\ \/ Running(d, "rasterize", "save")
     \/ Running(d, "classify", "fetch")
  /\ disk' = [disk EXCEPT ![d] = CorruptFile]
  /\ task' = [task EXCEPT ![d] = IdleTask("failed")]
  /\ mainpc' = "crashed"
  /\ UNCHANGED << rasterize, numPages, files, now, stage,
                  allowedTypes, before, filesBefore, written, calls, prevCalls >>
  /\ UNCHANGED otherVars

NextWithCrash ==
  \/ Next
  \/ \E d \in Docs : SaveIsCutShort(d)

\* The two stages run again and again, and a run may be killed while it saves.
CrashSpec == InitConfigured /\ [][NextWithCrash]_vars

\* C14: a manifest save is atomic with respect to crashes: manifest.json is
\* never seen partly written, it holds what the run found or a whole manifest.
C14_SaveIsAtomic ==
  \A d \in Docs : disk[d] = before[d] \/ disk[d].st = "ok"

\* -------------------------------------------------------------- ingest script
\* part_001:20  new PQueue({ concurrency: rasterize.concurrency || 2 })
IngestConcurrency ==
  IF Has(rasterize, "concurrency") /\ rasterize.concurrency # 0
  THEN rasterize.concurrency
  ELSE 2

\* path.parse(item).name: the name without its extension (part_001:34)
pathName(item) == SubSeq(item, 1, Len(item) - Len(extname(item)))

\* The names in the input directory; each is absent, a file or a directory.
InputNames == { << "a" >>, << "a", ".", "p", "d", "f" >>, << "b", ".", "p", "d", "f" >> }
InputDirs ==
  { { [name |-> n, isDirectory |-> kind[n] = "folder"] :
        n \in { n \in InputNames : kind[n] # "absent" } } :
      kind \in [InputNames -> {"absent", "file", "folder"}] }

\* fs.readdir returns the entries in an order of the file system's choosing.
readdir(entries) ==
  { seq \in [1..Cardinality(entries) -> entries] :
      \A x \in entries : \E i \in 1..Cardinality(entries) : seq[i] = x }

IngestRunning(ts) == { k \in 1..Len(ts) : ts[k].st = "running" }
IngestQueued(ts) == { k \in 1..Len(ts) : ts[k].st = "queued" }

\* p-queue starts the first queued task while fewer than the limit run.
RECURSIVE IngestTryToStart(_)
IngestTryToStart(ts) ==
  IF IngestQueued(ts) # {} /\ Cardinality(IngestRunning(ts)) < IngestConcurrency
  THEN IngestTryToStart(
         [ts EXCEPT ![CHOOSE k \in IngestQueued(ts) :
                        \A j \in IngestQueued(ts) : k <= j].st = "running"])
  ELSE ts

\* part_001:25-29: ensure staging exists and read the input directory.
RunIngestor ==
  /\ ingest.pc = "idle"
  /\ \E items \in readdir(inputDir) :
       ingest' = [pc |-> IF items = << >> THEN "draining" ELSE "adding",
                  items |-> items, i |-> 1, tasks |-> << >>, manifests |-> {}]
  /\ UNCHANGED inputDir
  /\ UNCHANGED << pipeVars, besideVars, assembleVars, listingVars, callVars >>

\* part_001:31-37: one pass of the loop: stat the item, derive its docId and
\* add its task to the queue, which starts it if a slot is free.
AddToQueue ==
  /\ ingest.pc = "adding"
  /\ LET item == ingest.items[ingest.i]
         docId == IF item.isDirectory THEN item.name ELSE pathName(item.name)
         t == [docId |-> docId, source |-> item.name, st |-> "queued"]
     IN  ingest' = [ingest EXCEPT
           !.tasks = IngestTryToStart(Append(ingest.tasks, t)),
           !.i = ingest.i + 1,
           !.pc = IF ingest.i = Len(ingest.items) THEN "draining" ELSE "adding"]
  /\ UNCHANGED inputDir
  /\ UNCHANGED << pipeVars, besideVars, assembleVars, listingVars, callVars >>

\* part_001:46-86: processDocument runs to its end: it writes
\* staging/<docId>/manifest.json, or an error inside the try block is caught
\* and logged and nothing is written; the queue starts the next task.
ProcessDocument(k) ==
  /\ ingest.pc \in {"adding", "draining"}
  /\ k \in IngestRunning(ingest.tasks)
  /\ \E ok \in BOOLEAN :
       ingest' = [ingest EXCEPT
         !.tasks = IngestTryToStart([ingest.tasks EXCEPT ![k].st = "done"]),
         !.manifests =
            IF ok
            THEN { m \in ingest.manifests : m.docId # ingest.tasks[k].docId }
                   \cup { [docId |-> ingest.tasks[k].docId,
                           source |-> ingest.tasks[k].source] }
            ELSE ingest.manifests]
  /\ UNCHANGED inputDir
  /\ UNCHANGED << pipeVars, besideVars, assembleVars, listingVars, callVars >>

\* part_001:39-40: await queue.onIdle() returns.
IngestOnIdle ==
  /\ ingest.pc = "draining"
  /\ IngestQueued(ingest.tasks) = {} /\ IngestRunning(ingest.tasks) = {}
  /\ ingest' = [ingest EXCEPT !.pc = "done"]
  /\ UNCHANGED inputDir
  /\ UNCHANGED << pipeVars, besideVars, assembleVars, listingVars, callVars >>

InitIngest ==
  /\ rasterize \in RasterizeConfigs
  /\ PipelineOff
  /\ AssemblerOff
  /\ ListingOff
  /\ CallOff
  /\ inputDir \in InputDirs
  /\ ingest = [pc |-> "idle"]

NextIngest ==
  \/ RunIngestor
  \/ AddToQueue
  \/ \E k \in 1..Cardinality(InputNames) : ProcessDocument(k)
  \/ IngestOnIdle

\* One run of the ingest script over an input directory
IngestSpec == InitIngest /\ [][NextIngest]_vars

IngestStarted == ingest.pc \in {"adding", "draining", "done"}

\* C15: in a run of the ingest script, as in a run of the rasterize or the
\* classify stage, every docId is submitted at most once, so that no two
\* tasks are ever active on the same document's manifest.
C15_NoTwoActiveOnOneDoc ==
  IngestStarted =>
    \A j, k \in IngestRunning(ingest.tasks) :
       j # k => ingest.tasks[j].docId # ingest.tasks[k].docId

\* ------------------------------------------------- listing the staging directory
\* The names in the staging directory; each is absent, a file, a directory or
\* a directory that holds input/document.pdf.
StagingNames ==
  { << "d", "1" >>, << "d", "2" >>, << "_", "t", "m", "p" >>,
    << "_", "a", "s", "s", "e", "m", "b", "l", "e", "_", "i", "n", "d", "e", "x",
       ".", "j", "s", "o", "n" >> }
StagingDirs ==
  { { [name |-> n, isDirectory |-> kind[n] # "file", hasInputPdf |-> kind[n] = "document"] :
        n \in { n \in StagingNames : kind[n] # "absent" } } :
      kind \in [StagingNames -> {"absent", "file", "folder", "document"}] }

\* rasterize.js:57-66: the entries listDocsInStaging keeps.
isStagedDocument(e) ==
  /\ e.isDirectory
  /\ ~startsWith(e.name, "_")
  /\ e.hasInputPdf

\* rasterize.js:53-70, 179-192: runRasterizeStage adds a task for each
\* document listDocsInStaging returns.
RasterizeLists ==
  /\ ~ \E s \in submitted : s.stage = "rasterize"
  /\ submitted' = submitted \cup
       { [stage |-> "rasterize",
          docIds |-> { e.name : e \in { e \in stagingDir : isStagedDocument(e) } }] }
  /\ UNCHANGED stagingDir
  /\ UNCHANGED << pipeVars, besideVars, assembleVars, ingestVars, callVars >>

\* classifier.js:19-23: runClassifier adds a task for each name fs.readdir
\* returns for the staging directory.
ClassifierLists ==
  /\ ~ \E s \in submitted : s.stage = "classify"
  /\ submitted' = submitted \cup
       { [stage |-> "classify", docIds |-> { e.name : e \in stagingDir }] }
  /\ UNCHANGED stagingDir
  /\ UNCHANGED << pipeVars, besideVars, assembleVars, ingestVars, callVars >>

InitListing ==
  /\ rasterize = EmptyObj
  /\ PipelineOff
  /\ AssemblerOff
  /\ IngestOff
  /\ CallOff
  /\ stagingDir \in StagingDirs
  /\ submitted = {}

NextListing ==
  \/ RasterizeLists
  \/ ClassifierLists

\* Each stage lists a staging directory once.
ListingSpec == InitListing /\ [][NextListing]_vars

\* C16: the rasterize stage and the classify stage each submit a task for
\* exactly the entries of staging that are directories, do not start with an
\* underscore and hold input/document.pdf.
C16_OnlyStagedDocumentsSubmitted ==
  \A s \in submitted :
    s.docIds = { e.name : e \in { e \in stagingDir : isStagedDocument(e) } }

\* The documents whose inference call is in flight
InFlight == { d \in Docs : calls[d] = "inflight" }

\* C17: in a classify run at most one inference call is in flight at a time.
C17_OneCallInFlight ==
  InClassify => Cardinality(InFlight) <= 1

\* C17 witness: a call is in flight while another document waits its turn.
C17_Witness ==
  /\ InClassify
  /\ Cardinality(InFlight) = 1
  /\ Queued(task) # {}

\* ------------------------------------------------------- naturalSort on its own
\* The names naturalSort is called with.
SortNames ==
  { << "p" >>, << "p", "2" >>, << "p", "1", "0" >>, << "P", "2" >>, << "p", "0", "2" >>,
    << "p", "2", "a" >>, << "a" >>, << "A" >>, << "2" >>, << "1", "0" >>,
    << "p", "_", "2" >>, << "p", ".", "2" >> }

\* part_000:42, 60 and rasterize.js:68: the comparator is called on two names.
CallNaturalSort ==
  /\ Len(args) = 2
  /\ result = << >>
  /\ result' = << naturalSort(args[1], args[2]) >>
  /\ UNCHANGED args
  /\ UNCHANGED << pipeVars, besideVars, assembleVars, ingestVars, listingVars >>

InitNaturalSort ==
  /\ rasterize = EmptyObj
  /\ PipelineOff
  /\ AssemblerOff
  /\ IngestOff
  /\ ListingOff
  /\ args \in SortNames \X SortNames
  /\ result = << >>

NextNaturalSort == CallNaturalSort

\* naturalSort called once on any two of the names
NaturalSortSpec == InitNaturalSort /\ [][NextNaturalSort]_vars

\* C18: naturalSort orders names totally and without ties: it returns 0 only
\* for two identical names, so not for names that differ in letter case, and
\* it orders runs of digits by their value.
C18_EqualOnlyIfIdentical ==
  result # << >> =>
    /\ result[1] = 0 <=> args[1] = args[2]
    /\ args = << << "p", "2" >>, << "p", "1", "0" >> >> => result[1] < 0

\* The files of document d the current run has written
WrittenOf(d) == { f \in written : f[1] = d }

\* Where a pyramid file stands in the order page by page, and within a page
\* resolution by resolution as configured
PageOfName(name) == CHOOSE i \in 0..(MaxPages + 1) : WebpName(i) = name
ResolutionOfFolder(folder) ==
  CHOOSE r \in 1..Len(RESOLUTIONS) : Folder(RESOLUTIONS[r]) = folder
OrderOf(f) == (PageOfName(f[3]) - 1) * Len(RESOLUTIONS) + ResolutionOfFolder(f[2])

\* C19: within one document's rasterization a step writes one file, the
\* files come in strictly increasing page order, and a page is written at
\* every configured resolution, in the configured order, before the next page.
C19_WritesInPageOrder ==
  [][\A d \in Docs :
       /\ Cardinality(WrittenOf(d)' \ WrittenOf(d)) <= 1
       /\ \A f \in WrittenOf(d)' \ WrittenOf(d) :
            /\ \A g \in WrittenOf(d) : OrderOf(g) < OrderOf(f)
            /\ OrderOf(f) = Cardinality(WrittenOf(d)) + 1]_vars

\* C19 witness: a document's second page has been written at the last of
\* several resolutions.
C19_Witness ==
  /\ InRasterize
  /\ Len(RESOLUTIONS) > 1
  /\ \E d \in Docs :
       << d, Folder(RESOLUTIONS[Len(RESOLUTIONS)]), WebpName(2) >> \in written

\* ------------------------------------------------- loadOrCreateManifest on its own
\* A manifest with every field, as some stage left it
FullManifest ==
  [docId |-> 1, createdAt |-> 0, updatedAt |-> 0, docType |-> INVOICE,
   input |-> [assembledPdf |-> "input/document.pdf"],
   pages |-> << [index |-> 1, r100 |-> "p1.webp"] >>,
   stages |-> [assemble |-> [finishedAt |-> 0]]]

\* What a persisted manifest may hold in a field: nothing, a value of the
\* field's type, or for input, pages and stages a value that is not.
FieldChoices(k) ==
  IF k \in {"input", "pages", "stages"} THEN {"absent", "kept", "null", "text"}
  ELSE {"absent", "kept"}

FieldValue(k, choice) ==
  CASE choice = "kept" -> FullManifest[k]
    [] choice = "null" -> IF k = "pages" THEN << JsonNull >> ELSE JsonNull
    [] choice = "text" -> IF k = "pages" THEN << JsonText >> ELSE JsonText

PersistedManifests ==
  { [k \in { k \in DOMAIN FullManifest : choice[k] # "absent" } |-> FieldValue(k, choice[k])] :
      choice \in { c \in [DOMAIN FullManifest -> {"absent", "kept", "null", "text"}] :
                     \A k \in DOMAIN FullManifest : c[k] \in FieldChoices(k) } }

\* manifest.json as loadOrCreateManifest may find it, if it can be parsed
PersistedFiles ==
  { NoFile, JsonFile(JsonNull) } \cup { JsonFile(m) : m \in PersistedManifests }

\* rasterize.js:72-81: loadOrCreateManifest is called for a document; time
\* passes.
CallLoadOrCreate ==
  /\ Len(args) = 2
  /\ result = << >>
  /\ args[1].st \in {"none", "ok"}
  /\ result' = << loadOrCreateManifest(args[1], args[2]) >>
  /\ now' = now + 1
  /\ UNCHANGED << rasterize, numPages, disk, files, stage, mainpc, task,
                  allowedTypes, before, filesBefore, written, calls, prevCalls >>
  /\ UNCHANGED << args, assembleVars, ingestVars, listingVars, besideVars >>

\* rasterize.js:40-51: the manifest returned is normalized once more.
CallNormalizeAgain ==
  /\ Len(args) = 2
  /\ Len(result) = 1
  /\ args[1].st \in {"none", "ok"}
  /\ result' = Append(result, normalizeManifest(result[1], args[2]))
  /\ UNCHANGED << pipeVars, besideVars, args, assembleVars, ingestVars, listingVars >>

InitLoad ==
  /\ rasterize = EmptyObj
  /\ PipelineOff
  /\ AssemblerOff
  /\ IngestOff
  /\ ListingOff
  /\ args \in PersistedFiles \X Docs
  /\ result = << >>

NextLoad ==
  \/ CallLoadOrCreate
  \/ CallNormalizeAgain

\* loadOrCreateManifest called on any of the persisted files
LoadSpec == InitLoad /\ [][NextLoad]_vars

\* The record the file holds, if it holds one
Persisted == IF args[1].st = "ok" /\ IsObject(args[1].json) THEN args[1].json ELSE EmptyObj

\* input, pages and stages of a manifest are a mapping, a list and a mapping
HasSchemaFields(m) ==
  /\ Has(m, "input") /\ IsObject(m.input)
  /\ Has(m, "pages") /\ IsArray(m.pages)
  /\ Has(m, "stages") /\ IsObject(m.stages)

\* The persisted value of field k is of the type the schema gives the field
WellTyped(m, k) ==
  CASE k \in {"input", "stages"} -> IsObject(m[k])
    [] k = "pages" -> IsArray(m[k])
    [] OTHER -> TRUE

RunClassifierBeside ==
  /\ beside.mainpc = "off"
  /\ allowedTypes' \in AllowLists
  /\ beside' = [mainpc |-> "draining",
                task |-> Submit(Docs, ClassifyConcurrency, "read"),
                wrote |-> [d \in Docs |-> << >>]]
  /\ UNCHANGED << rasterize, numPages, disk, files, now, stage, mainpc, task,
                  before, filesBefore, written, calls, prevCalls >>
  /\ UNCHANGED << assembleVars, ingestVars, listingVars, callVars >>

RunningBeside(d, pc) ==
  /\ beside.mainpc = "draining"
  /\ beside.task[d].st = "running"
  /\ beside.task[d].pc = pc

\* classifier.js:30-52, as ClassifyBegin: read the manifest as it is on disk
\* now, skip or send the request; a missing or unparseable manifest rejects
\* the task and nothing handles the rejection.
BesideBegin(d) ==
  /\ RunningBeside(d, "read")
  /\ IF disk[d].st # "ok"
     THEN \/ beside' = [beside EXCEPT
                 !.task = Settle(beside.task, d, "failed", ClassifyConcurrency, "read")]
          \/ beside' = [beside EXCEPT !.task[d] = IdleTask("failed"),
                                      !.mainpc = "crashed"]
     ELSE IF alreadyClassified(disk[d].json) \/ ~imageExists(d)
     THEN beside' = [beside EXCEPT
            !.task = Settle(beside.task, d, "done", ClassifyConcurrency, "read")]
     ELSE beside' = [beside EXCEPT !.task[d].manifest = disk[d].json,
                                   !.task[d].pc = "fetch"]
  /\ UNCHANGED pipeVars
  /\ UNCHANGED << assembleVars, ingestVars, listingVars, callVars >>

\* classifier.js:70-87, as ClassifyAnswer: the answer arrives and the manifest
\* read at the start, with docType and classifierModel set, is written.
BesideAnswer(d) ==
  /\ RunningBeside(d, "fetch")
  /\ \E content \in Responses :
       /\ disk' = [disk EXCEPT ![d] =
            JsonFile(setDocType(beside.task[d].manifest, detectType(content, allowedTypes)))]
       /\ beside' = [beside EXCEPT
            !.task = Settle(beside.task, d, "done", ClassifyConcurrency, "read"),
            !.wrote[d] = detectType(content, allowedTypes)]
  /\ UNCHANGED << rasterize, numPages, files, now, stage, mainpc, task,
                  allowedTypes, before, filesBefore, written, calls, prevCalls >>
  /\ UNCHANGED << assembleVars, ingestVars, listingVars, callVars >>

\* classifier.js:52-71, 89-91, as ClassifyCallFails.
BesideCallFails(d) ==
  /\ RunningBeside(d, "fetch")
  /\ beside' = [beside EXCEPT
       !.task = Settle(beside.task, d, "done", ClassifyConcurrency, "read")]
  /\ UNCHANGED pipeVars
  /\ UNCHANGED << assembleVars, ingestVars, listingVars, callVars >>

\* classifier.js:25-26: await queue.onIdle() returns.
BesideOnIdle ==
  /\ beside.mainpc = "draining"
  /\ IsIdle(beside.task)
  /\ beside' = [beside EXCEPT !.mainpc = "done"]
  /\ UNCHANGED pipeVars
  /\ UNCHANGED << assembleVars, ingestVars, listingVars, callVars >>

\* A configured pyramid; staging as any stage may have left it.
InitConcurrent ==
  /\ Init
  /\ rasterize # EmptyObj

\* rasterize.js:172-192: the one rasterize process that is followed starts.
RunRasterizeStageOnce ==
  /\ now = 0
  /\ RunRasterizeStage

NextConcurrent ==
  \/ RunRasterizeStageOnce
  \/ \E d \in Docs : RasterizeStep(d)
  \/ OnIdle
  \/ RunClassifierBeside
  \/ \E d \in Docs : BesideBegin(d)
  \/ \E d \in Docs : BesideAnswer(d)
  \/ \E d \in Docs : BesideCallFails(d)
  \/ BesideOnIdle

\* One rasterize run and one classify run as two processes, in any interleaving
ConcurrentSpec == InitConcurrent /\ [][NextConcurrent]_vars

BothFinished ==
  /\ InRasterize
  /\ mainpc = "done"
  /\ beside.mainpc = "done"

\* C21: once a rasterize process and a classify process over the same staging
\* directory have both finished, however their loads and saves interleaved,
\* a document's manifest holds the docType and classifierModel the classifier
\* wrote and the pages and stages.rasterize the rasterize run wrote.
C21_NoUpdateLost ==
  BothFinished =>
    \A d \in Docs :
      /\ beside.wrote[d] # << >> =>
           /\ disk[d].st = "ok"
           /\ Has(disk[d].json, "docType") /\ disk[d].json.docType = beside.wrote[d]
           /\ Has(disk[d].json, "classifierModel")
      /\ task[d].st = "done" =>
           /\ HasFinishedAt(disk[d])
           /\ Len(disk[d].json.pages) = numPages[d]

\* ------------------------------------------- names that sanitize to one docKey
\* Names an incoming directory may hold on a file system that allows ":" and
\* "?" in a name: part_000:21 turns both into "_".
CollidingNames == { << "d", ":" >>, << "d", "?" >>, << "s", ".", "p", "d", "f" >> }

InitCollide ==
  /\ rasterize = EmptyObj
  /\ PipelineOff
  /\ IngestOff
  /\ ListingOff
  /\ CallOff
  /\ incoming \in IncomingDirsOver(CollidingNames)
  /\ asm = [pc |-> "idle"]
  /\ assembled = {}
  /\ indexFile = << >>

\* One run of the assembler over an incoming directory with such names
CollideSpec == InitCollide /\ [][NextAssemble]_vars

\* part_000:108-135: what assembleOneDocument writes for a document
OwnContents(doc) ==
  IF doc.kind = "file"
  THEN { PagesOf(<< doc.name >>, Entry(incoming, doc.name).pages) }
  ELSE { mergedBytes(doc.name, parts) :
           parts \in listFolderParts(Entry(incoming, doc.name).parts) }

\* C22: after an assemble run that completed without error, the document.pdf
\* under each discovered document's docKey holds that document's own assembled
\* content, and the docKeys of the run's index are pairwise distinct.
C22_NoOutputOverwritten ==
  asm.pc = "done" /\ indexFile # << >> =>
    /\ \A i \in 1..Len(asm.docs) :
         \E pages \in OwnContents(asm.docs[i]) :
           << safeDocKey(asm.docs[i].name), pages >> \in assembled
    /\ \A i, j \in 1..Len(indexFile[1]) :
         i # j => indexFile[1][i].docKey # indexFile[1][j].docKey

\* --------------------------------------------- every run rasterizes every document
\* C23: a rasterize run submits a task for every document of staging, whether
\* or not its manifest already has stages.rasterize.finishedAt; the started
\* task replaces stages.rasterize by a new entry, and when it succeeds the
\* saved entry is this run's alone.
C23_EveryDocIsRasterizedAgain ==
  InRasterize =>
    \A d \in Docs :
      /\ task[d].st # "none"
      /\ task[d].st = "running" /\ task[d].pc # "load" =>
           task[d].manifest.stages.rasterize =
             [startedAt |-> now, resolutions |-> ResolutionList]
      /\ task[d].st = "done" =>
           /\ disk[d].st = "ok"
           /\ disk[d].json.stages.rasterize =
                [startedAt |-> now, resolutions |-> ResolutionList,
                 finishedAt |-> now, pageCount |-> numPages[d]]

\* C23 witness: a document an earlier run finished has been rasterized again
\* and its entry is the later run's.
C23_Witness ==
  \E d \in Docs :
    /\ InRasterize
    /\ task[d].st = "done"
    /\ HasFinishedAt(before[d])
    /\ before[d].json.stages.rasterize.finishedAt < now
    /\ disk[d].json.stages.rasterize.startedAt = now
    /\ written # {}

====
